---- MODULE Spec2Model ----
(***************************************************************************)
(* sqs-list-filled-queues: the main control flow of main(), the worker     *)
(* pool of get_queue_infos(), check_queue(), display_results(),            *)
(* countdown(), quit() and filter_queues_by_pattern() of                   *)
(* src/sqs_list_filled_queues.py.                                          *)
(*                                                                         *)
(* Strings that the program takes apart (queue URLs, patterns) are         *)
(* sequences of one-character strings.  The main thread advances through   *)
(* the program points named by pc; the pool's worker threads run beside    *)
(* it.  A KeyboardInterrupt is raised in the main thread between two of    *)
(* its steps, any number of times; countdown is cut into the statements    *)
(* around its try block so that every place an interrupt can find the      *)
(* terminal in is a program point.  Worker threads are not ended by an     *)
(* interrupt: the interpreter waits for them when the main thread is done. *)
(*                                                                         *)
(* Spec is a run of main with interrupts; LiveSpec adds the fairness of    *)
(* the threads and of the service; KeySpec is a run in which keys are      *)
(* typed ahead of the countdown, ServiceSpec one during which queues are   *)
(* created and deleted; FnSpec applies check_queue and                     *)
(* filter_queues_by_pattern to arguments of their own.                     *)
(***************************************************************************)
EXTENDS Integers, Sequences, FiniteSets, TLC

\* ------------------------------------------------------------------ bounds
\* Longest list of queue URLs the service returns.
MaxQueues == 2
\* Largest --workers value.
MaxWorkers == 2
\* Largest --watch interval, in seconds.
MaxWatch == 2
\* Largest message count of a queue when check_queue is called on its own.
MaxAttr == 3
\* Most keys typed ahead of the countdown's reading them.
MaxTyped == 1

\* ------------------------------------------------------------ characters
\* The characters in use, in code-point order.
Chars == <<"%", "/", "2", "A", "B", "F", "[", "^", "a", "b", "h">>

Ord(c) == CHOOSE k \in 1..Len(Chars) : Chars[k] = c

\* str.lower() on one character.
LowerChar(c) == IF c = "A" THEN "a" ELSE IF c = "B" THEN "b" ELSE IF c = "F" THEN "f" ELSE c

Lower(s) == [k \in 1..Len(s) |-> LowerChar(s[k])]

\* s < t on Python strings: lexicographic by code point.
RECURSIVE StrLess(_, _)
StrLess(s, t) ==
    IF t = <<>> THEN FALSE
    ELSE IF s = <<>> THEN TRUE
    ELSE IF Ord(Head(s)) # Ord(Head(t)) THEN Ord(Head(s)) < Ord(Head(t))
    ELSE StrLess(Tail(s), Tail(t))

\* url.split('/')[-1]
RECURSIVE LastSegment(_)
LastSegment(url) ==
    IF url = <<>> THEN <<>>
    ELSE IF url[Len(url)] = "/" THEN <<>>
    ELSE LastSegment(SubSeq(url, 1, Len(url) - 1)) \o <<url[Len(url)]>>

\* urllib.parse.quote(url, safe=''): letters stay, '/' becomes %2F.
RECURSIVE Quote(_)
Quote(s) ==
    IF s = <<>> THEN <<>>
    ELSE (IF Head(s) = "/" THEN <<"%", "2", "F">> ELSE <<Head(s)>>) \o Quote(Tail(s))

\* -------------------------------------------------------------- the inputs
\* The queue URLs the service can list: the queues of one account and region,
\* so that no two of them have the same name.
AllUrls == << <<"h", "/", "b">>, <<"h", "/", "B", "a">>, <<"h", "/", "a">> >>

\* list_queues() answers with a list of distinct URLs.
ListedChoices == {SubSeq(AllUrls, 1, n) : n \in 0..(IF MaxQueues < Len(AllUrls) THEN MaxQueues ELSE Len(AllUrls))}

\* --pattern values: not given, a valid anchored pattern, an invalid one.
PatternChoices == {<<>>, <<"^", "b", "A">>, <<"[">>}

\* The values a message-count attribute takes.
CountChoices == {0, 1}

\* Keys a user can press during the countdown.
Keys == {"r", "R", "q", "Q", "x"}

\* The command line.  watch_given = FALSE is args.watch = None.
ArgsChoices ==
    {a \in [watch_given : BOOLEAN, watch : {0, MaxWatch}, workers : 1..MaxWorkers,
            include_in_flight : BOOLEAN, pattern : PatternChoices] :
        a.watch_given \/ a.watch = 0}

\* sys.stdin.read(1).lower()
LowerKey(k) == IF k = "R" THEN "r" ELSE IF k = "Q" THEN "q" ELSE k

\* ------------------------------------------------------------ the service
\* What get_queue_attributes does for one call: it raises QueueDoesNotExist,
\* raises another error, or answers with the attributes that were asked for.
AttributeNames(include_in_flight) ==
    IF include_in_flight
    THEN {"ApproximateNumberOfMessages", "ApproximateNumberOfMessagesNotVisible"}
    ELSE {"ApproximateNumberOfMessages"}

Responses(include_in_flight) ==
    {[exc |-> e, Attributes |-> <<>>] : e \in {"QueueDoesNotExist", "other"}}
    \cup {[exc |-> "none", Attributes |-> a] :
              a \in [AttributeNames(include_in_flight) -> CountChoices]}

\* get_queue_attributes for a queue that exists and holds v visible and n
\* not-visible messages: the attributes that were asked for, and no others.
get_queue_attributes(v, n, attribute_names) ==
    [exc |-> "none",
     Attributes |-> [name \in attribute_names |->
                        IF name = "ApproximateNumberOfMessages" THEN v ELSE n]]

\* ------------------------------------------------------------ check_queue
\* What a fetch hands back: None, a tuple, or a raised error.
NoneResult == [kind |-> "None", message_count |-> 0, in_flight_count |-> 0, queue_url |-> <<>>]
ErrorResult == [kind |-> "error", message_count |-> 0, in_flight_count |-> 0, queue_url |-> <<>>]
TupleResult(mc, ifc, url) ==
    [kind |-> "tuple", message_count |-> mc, in_flight_count |-> ifc, queue_url |-> url]

\* response['Attributes'].get(name, 0)
AttrGet(attrs, name) == IF name \in DOMAIN attrs THEN attrs[name] ELSE 0

\* check_queue without its final "if total_count".
check_queue_NoZeroCheck(queue_url, include_in_flight, response) ==
    IF response.exc = "QueueDoesNotExist" THEN NoneResult
    ELSE IF response.exc = "other" THEN ErrorResult
    ELSE TupleResult(response.Attributes["ApproximateNumberOfMessages"],
                     IF include_in_flight
                     THEN AttrGet(response.Attributes, "ApproximateNumberOfMessagesNotVisible")
                     ELSE 0,
                     queue_url)

\* check_queue that never reads the in-flight attribute.
check_queue_VisibleOnly(queue_url, include_in_flight, response) ==
    IF response.exc = "QueueDoesNotExist" THEN NoneResult
    ELSE IF response.exc = "other" THEN ErrorResult
    ELSE LET message_count == response.Attributes["ApproximateNumberOfMessages"]
         IN  IF message_count # 0
             THEN TupleResult(message_count, 0, queue_url)
             ELSE NoneResult

\* check_queue without its except clause.
check_queue_NoExcept(queue_url, include_in_flight, response) ==
    IF response.exc # "none" THEN ErrorResult
    ELSE LET message_count == response.Attributes["ApproximateNumberOfMessages"]
             in_flight_count ==
                 IF include_in_flight
                 THEN AttrGet(response.Attributes, "ApproximateNumberOfMessagesNotVisible")
                 ELSE 0
         IN  IF message_count + in_flight_count # 0
             THEN TupleResult(message_count, in_flight_count, queue_url)
             ELSE NoneResult

check_queue(queue_url, include_in_flight, response) ==
    IF response.exc = "QueueDoesNotExist" THEN NoneResult
    ELSE IF response.exc = "other" THEN ErrorResult
    ELSE LET message_count == response.Attributes["ApproximateNumberOfMessages"]
             in_flight_count ==
                 IF include_in_flight
                 THEN AttrGet(response.Attributes, "ApproximateNumberOfMessagesNotVisible")
                 ELSE 0
             total_count == message_count + in_flight_count
         IN  IF total_count # 0
             THEN TupleResult(message_count, in_flight_count, queue_url)
             ELSE NoneResult

\* ------------------------------------------------- filter_queues_by_pattern
\* re.compile: a '[' that no ']' closes is an error.
RegexValid(pattern) ==
    \A k \in 1..Len(pattern) :
        pattern[k] = "[" => \E j \in (k + 1)..Len(pattern) : pattern[j] = "]"

\* regex.search(queue_name) under re.IGNORECASE, for a pattern of literal
\* characters after an optional leading '^'.
RegexSearch(pattern, queue_name) ==
    LET anchored == pattern # <<>> /\ Head(pattern) = "^"
        lit == Lower(IF anchored THEN Tail(pattern) ELSE pattern)
        name == Lower(queue_name)
        MatchAt(k) == k + Len(lit) - 1 <= Len(name)
                      /\ SubSeq(name, k, k + Len(lit) - 1) = lit
    IN  IF anchored THEN MatchAt(1)
        ELSE \E k \in 1..(Len(name) + 1) : MatchAt(k)

\* The loop of lines 138-141 searching the URL instead of the queue name.
RECURSIVE FilterLoop_FullUrl(_, _)
FilterLoop_FullUrl(urls, pattern) ==
    IF urls = <<>> THEN <<>>
    ELSE (IF RegexSearch(pattern, Head(urls)) THEN <<Head(urls)>> ELSE <<>>)
         \o FilterLoop_FullUrl(Tail(urls), pattern)

\* lines 137-141: the URLs whose queue name the pattern finds, in list order.
RECURSIVE FilterLoop(_, _)
FilterLoop(urls, pattern) ==
    IF urls = <<>> THEN <<>>
    ELSE (IF RegexSearch(pattern, LastSegment(Head(urls))) THEN <<Head(urls)>> ELSE <<>>)
         \o FilterLoop(Tail(urls), pattern)

\* filter_queues_by_pattern passing the list on when the pattern is invalid.
filter_queues_by_pattern_NoExit(urls, pattern) ==
    IF pattern = <<>> \/ ~RegexValid(pattern) THEN [exit |-> FALSE, urls |-> urls]
    ELSE [exit |-> FALSE, urls |-> FilterLoop(urls, pattern)]

\* The value filter_queues_by_pattern returns; "exit" records sys.exit(1).
filter_queues_by_pattern(urls, pattern) ==
    IF pattern = <<>> THEN [exit |-> FALSE, urls |-> urls]
    ELSE IF ~RegexValid(pattern) THEN [exit |-> TRUE, urls |-> <<>>]
    ELSE [exit |-> FALSE, urls |-> FilterLoop(urls, pattern)]

\* --------------------------------------------------------- display_results
DisplayRow(result) ==
    [base_name |-> LastSegment(result.queue_url),
     message_count |-> result.message_count,
     in_flight_count |-> result.in_flight_count,
     total_count |-> result.message_count + result.in_flight_count,
     link |-> <<"#", "/", "queues", "/">> \o Quote(result.queue_url)]

\* The sort key without its minus sign: (x[3], x[0]).
KeyLess_AscendingTotal(x, y) ==
    \/ x.total_count < y.total_count
    \/ x.total_count = y.total_count /\ StrLess(x.base_name, y.base_name)

\* The sort key (-x[3], x[0]) compared as Python compares tuples.
KeyLess(x, y) ==
    \/ -x.total_count < -y.total_count
    \/ x.total_count = y.total_count /\ StrLess(x.base_name, y.base_name)

\* sorted() is stable: a row goes behind every row that is not greater.
RECURSIVE InsertRow(_, _)
InsertRow(row, rows) ==
    IF rows = <<>> THEN <<row>>
    ELSE IF KeyLess(row, Head(rows)) THEN <<row>> \o rows
    ELSE <<Head(rows)>> \o InsertRow(row, Tail(rows))

RECURSIVE SortRows(_)
SortRows(rows) ==
    IF rows = <<>> THEN <<>>
    ELSE InsertRow(rows[Len(rows)], SortRows(SubSeq(rows, 1, Len(rows) - 1)))

\* The rows display_results prints, in printing order.
display_results(results) == SortRows([k \in 1..Len(results) |-> DisplayRow(results[k])])

\* ------------------------------------------------------------------ state
VARIABLES
    args,               \* the parsed command line
    pc,                 \* the main thread's program point
    pending,            \* the exception the main thread is unwinding with
    exit_status,        \* the process's exit status, NoExit while it runs
    response,           \* list_queues()'s QueueUrls
    queue_urls,         \* main's queue_urls
    futures,            \* the cycle's futures, in submission order
    work_queue,         \* the executor's queue of futures not yet taken
    num_threads,        \* worker threads the executor has started
    running,            \* futures whose check_queue is executing
    yielded,            \* futures as_completed has handed to the loop
    results,            \* get_queue_infos's results list, then main's results
    tty_mode,           \* the terminal's input mode
    original_settings,  \* countdown's saved terminal settings
    i,                  \* countdown's loop variable
    key,                \* countdown's key
    ret,                \* countdown's return value
    seen,               \* what the run has done so far
    intr_at,            \* the program points where an interrupt was raised
    stdin,              \* the keys typed and not yet read or discarded
    processed_queues,   \* get_queue_infos's processed_queues
    call,               \* a function called on its own, with its arguments
    returned            \* what that call returned

vars == <<args, pc, pending, exit_status, response, queue_urls, futures, work_queue,
          num_threads, running, yielded, results, tty_mode, original_settings, i, key,
          ret, seen, intr_at, stdin, processed_queues, call, returned>>

pool_vars == <<futures, work_queue, num_threads, running>>
tty_vars == <<tty_mode, original_settings>>
cd_vars == <<i, key, ret>>
fn_vars == <<call, returned>>

\* No function is called on its own while main runs.
NoCall == [fn |-> "none"]

NoExit == -1
\* The status of a process that an uncaught KeyboardInterrupt ends.
SigintStatus == 130

\* seen tells whether list_queues was called, a poll cycle started, a
\* get_queue_attributes call made, display_results called and the regex error
\* reported, and counts the termination messages.
NothingSeen ==
    [list |-> FALSE, poll |-> FALSE, fetch |-> FALSE, display |-> FALSE, regex_error |-> FALSE,
     term_msgs |-> 0]

NewFuture == [state |-> "unsubmitted", exc |-> "none", value |-> NoneResult]

Init ==
    /\ args \in ArgsChoices
    /\ pc = "list"
    /\ pending = "none"
    /\ exit_status = NoExit
    /\ response \in ListedChoices
    /\ queue_urls = <<>>
    /\ futures = <<>>
    /\ work_queue = <<>>
    /\ num_threads = 0
    /\ running = {}
    /\ yielded = {}
    /\ results = <<>>
    /\ tty_mode = "cooked"
    /\ original_settings = "unset"
    /\ i = 0
    /\ key = ""
    /\ ret = FALSE
    /\ seen = NothingSeen
    /\ intr_at = {}
    /\ stdin = <<>>
    /\ processed_queues = 0
    /\ call = NoCall
    /\ returned = NoCall

\* ------------------------------------------------------------------- quit
\* quit() without its sys.exit(0).
quit_NoExit ==
    /\ seen' = [seen EXCEPT !.term_msgs = @ + 1]
    /\ pending' = "none"

\* quit(): print the termination message, then sys.exit(0) raises SystemExit.
quit ==
    /\ seen' = [seen EXCEPT !.term_msgs = @ + 1]
    /\ pending' = "SystemExit"

\* The status the process ends with when exception exc leaves main: 0 for
\* SystemExit(0), 1 for the traceback of a fetch error, and the interrupt
\* status for a KeyboardInterrupt nothing catches.
ExitStatusOf(exc) ==
    IF exc = "SystemExit" THEN 0
    ELSE IF exc = "KeyboardInterrupt" THEN SigintStatus
    ELSE 1

\* ------------------------------------------------------------------- main
\* main, lines 157-160: list the queues.
MainList ==
    /\ pc = "list"
    /\ seen' = [seen EXCEPT !.list = TRUE]
    /\ queue_urls' = response
    /\ pc' = "filter"
    /\ UNCHANGED <<args, fn_vars, stdin, processed_queues, pending, exit_status, response,
                   pool_vars, yielded, results, tty_vars, cd_vars, intr_at>>

\* main, lines 163-168: filter when a pattern was given; an invalid pattern
\* is reported and ends the process with status 1.
MainFilter ==
    /\ pc = "filter"
    /\ IF args.pattern # <<>>
       THEN LET f == filter_queues_by_pattern(queue_urls, args.pattern)
            IN  IF f.exit
                THEN /\ seen' = [seen EXCEPT !.regex_error = TRUE]
                     /\ exit_status' = 1
                     /\ pc' = "terminated"
                     /\ UNCHANGED queue_urls
                ELSE /\ queue_urls' = f.urls
                     /\ pc' = "poll"
                     /\ UNCHANGED <<seen, exit_status>>
       ELSE /\ pc' = "poll"
            /\ UNCHANGED <<queue_urls, seen, exit_status>>
    /\ UNCHANGED <<args, fn_vars, stdin, processed_queues, pending, response, pool_vars, yielded, results, tty_vars,
                   cd_vars, intr_at>>

\* --------------------------------------------------------- get_queue_infos
AllFutures == 1..Len(futures)

\* A pool that starts a thread for every task.
adjust_thread_count_Unbounded(threads, max_workers) == {threads + 1}

\* ThreadPoolExecutor._adjust_thread_count, the thread counts a submit can
\* leave: one more while fewer than max_workers exist, or the same when the
\* executor counts on a thread it has (which of the two depends on its
\* bookkeeping of idle workers).
adjust_thread_count(threads, max_workers) ==
    (IF threads < max_workers THEN {threads + 1} ELSE {})
    \cup (IF threads > 0 THEN {threads} ELSE {})

\* A poll cycle that lists the queues again.
MainPoll_Relist ==
    /\ pc = "poll"
    /\ seen' = [seen EXCEPT !.poll = TRUE]
    /\ queue_urls' = response
    /\ results' = <<>>
    /\ futures' = [k \in 1..Len(response) |-> NewFuture]
    /\ work_queue' = <<>>
    /\ num_threads' = 0
    /\ running' = {}
    /\ yielded' = {}
    /\ processed_queues' = 0
    /\ pc' = IF response = <<>> THEN "pool_exit" ELSE "submit"
    /\ UNCHANGED <<args, fn_vars, stdin, pending, exit_status, response, tty_vars,
                   cd_vars, intr_at>>

\* get_queue_infos appending to the results of the cycle before.
MainPoll_KeepResults ==
    /\ pc = "poll"
    /\ seen' = [seen EXCEPT !.poll = TRUE]
    /\ futures' = [k \in 1..Len(queue_urls) |-> NewFuture]
    /\ work_queue' = <<>>
    /\ num_threads' = 0
    /\ running' = {}
    /\ yielded' = {}
    /\ processed_queues' = 0
    /\ pc' = IF queue_urls = <<>> THEN "pool_exit" ELSE "submit"
    /\ UNCHANGED <<args, fn_vars, stdin, pending, exit_status, response, queue_urls,
                   results, tty_vars, cd_vars, intr_at>>

\* get_queue_infos, lines 84-87: a fresh results list and a fresh executor.
MainPoll ==
    /\ pc = "poll"
    /\ seen' = [seen EXCEPT !.poll = TRUE]
    /\ results' = <<>>
    /\ futures' = [k \in 1..Len(queue_urls) |-> NewFuture]
    /\ work_queue' = <<>>
    /\ num_threads' = 0
    /\ running' = {}
    /\ yielded' = {}
    /\ processed_queues' = 0
    /\ pc' = IF queue_urls = <<>> THEN "pool_exit" ELSE "submit"
    /\ UNCHANGED <<args, fn_vars, stdin, pending, exit_status, response, queue_urls, tty_vars, cd_vars,
                   intr_at>>

\* line 88: executor.submit for the next URL of the list.
MainSubmit ==
    /\ pc = "submit"
    /\ \E k \in AllFutures :
        /\ futures[k].state = "unsubmitted"
        /\ \A j \in 1..(k - 1) : futures[j].state # "unsubmitted"
        /\ futures' = [futures EXCEPT ![k].state = "pending"]
        /\ work_queue' = Append(work_queue, k)
        /\ num_threads' \in adjust_thread_count(num_threads, args.workers)
        /\ pc' = IF k = Len(futures) THEN "collect" ELSE "submit"
    /\ UNCHANGED <<args, fn_vars, stdin, processed_queues, pending, exit_status, response, queue_urls, running, yielded,
                   results, tty_vars, cd_vars, seen, intr_at>>

\* A worker thread takes the oldest queued future and calls check_queue,
\* which calls get_queue_attributes.
WorkerTake ==
    /\ Cardinality(running) < num_threads
    /\ work_queue # <<>>
    /\ LET k == Head(work_queue)
       IN  /\ futures' = [futures EXCEPT ![k].state = "running"]
           /\ running' = running \cup {k}
    /\ work_queue' = Tail(work_queue)
    /\ seen' = [seen EXCEPT !.fetch = TRUE]
    /\ UNCHANGED <<args, fn_vars, stdin, processed_queues, pc, pending, exit_status, response, queue_urls, num_threads,
                   yielded, results, tty_vars, cd_vars, intr_at>>

\* The service answers and check_queue returns or raises: the future is done
\* and the worker goes idle.
WorkerFinish ==
    \E k \in running, resp \in Responses(args.include_in_flight) :
        /\ futures' = [futures EXCEPT ![k] =
               [state |-> "finished", exc |-> resp.exc,
                value |-> check_queue(queue_urls[k], args.include_in_flight, resp)]]
        /\ running' = running \ {k}
        /\ UNCHANGED <<args, fn_vars, stdin, processed_queues, pc, pending, exit_status, response, queue_urls, work_queue,
                       num_threads, yielded, results, tty_vars, cd_vars, seen, intr_at>>

\* The loop of lines 90-95 looking for a typed key at each pass and ending
\* the run on a quit key.
MainCollect_ReadsKey ==
    /\ pc = "collect"
    /\ IF stdin # <<>>
       THEN /\ key' = LowerKey(Head(stdin))
            /\ stdin' = Tail(stdin)
            /\ IF key' = "q"
               THEN /\ quit
                    /\ exit_status' = ExitStatusOf("SystemExit")
                    /\ pc' = "terminated"
               ELSE UNCHANGED <<seen, pending, exit_status, pc>>
            /\ UNCHANGED <<yielded, processed_queues, results>>
       ELSE /\ \E k \in AllFutures \ yielded :
                /\ futures[k].state = "finished"
                /\ yielded' = yielded \cup {k}
                /\ processed_queues' = processed_queues + 1
                /\ IF futures[k].value.kind = "error"
                   THEN /\ pending' = "FetchError"
                        /\ pc' = "pool_exit"
                        /\ UNCHANGED results
                   ELSE /\ results' = IF futures[k].value.kind = "tuple"
                                      THEN Append(results, futures[k].value)
                                      ELSE results
                        /\ pc' = IF yielded' = AllFutures THEN "pool_exit" ELSE "collect"
                        /\ UNCHANGED pending
            /\ UNCHANGED <<stdin, key, seen, exit_status>>
    /\ UNCHANGED <<args, fn_vars, response, queue_urls, pool_vars, tty_vars, i, ret,
                   intr_at>>

\* The loop of lines 90-95 counting a queue only when its result is kept.
MainCollect_CountPresent ==
    /\ pc = "collect"
    /\ \E k \in AllFutures \ yielded :
        /\ futures[k].state = "finished"
        /\ yielded' = yielded \cup {k}
        /\ IF futures[k].value.kind = "error"
           THEN /\ pending' = "FetchError"
                /\ pc' = "pool_exit"
                /\ UNCHANGED <<results, processed_queues>>
           ELSE /\ results' = IF futures[k].value.kind = "tuple"
                              THEN Append(results, futures[k].value)
                              ELSE results
                /\ processed_queues' = IF futures[k].value.kind = "tuple"
                                       THEN processed_queues + 1
                                       ELSE processed_queues
                /\ pc' = IF yielded' = AllFutures THEN "pool_exit" ELSE "collect"
                /\ UNCHANGED pending
    /\ UNCHANGED <<args, fn_vars, stdin, exit_status, response, queue_urls, pool_vars,
                   tty_vars, cd_vars, seen, intr_at>>

\* The loop of lines 90-95 with a fetch's error caught and skipped.
MainCollect_Swallow ==
    /\ pc = "collect"
    /\ \E k \in AllFutures \ yielded :
        /\ futures[k].state = "finished"
        /\ yielded' = yielded \cup {k}
        /\ processed_queues' = processed_queues + 1
        /\ results' = IF futures[k].value.kind = "tuple"
                      THEN Append(results, futures[k].value)
                      ELSE results
        /\ pc' = IF yielded' = AllFutures THEN "pool_exit" ELSE "collect"
    /\ UNCHANGED <<args, fn_vars, stdin, pending, exit_status, response, queue_urls,
                   pool_vars, tty_vars, cd_vars, seen, intr_at>>

\* lines 90-95: as_completed hands over a finished future and the progress
\* line is printed; future.result() re-raises the fetch's error, and a result
\* that is not None is appended.
MainCollect ==
    /\ pc = "collect"
    /\ \E k \in AllFutures \ yielded :
        /\ futures[k].state = "finished"
        /\ yielded' = yielded \cup {k}
        /\ processed_queues' = processed_queues + 1
        /\ IF futures[k].value.kind = "error"
           THEN /\ pending' = "FetchError"
                /\ pc' = "pool_exit"
                /\ UNCHANGED results
           ELSE /\ results' = IF futures[k].value.kind = "tuple"
                              THEN Append(results, futures[k].value)
                              ELSE results
                /\ pc' = IF yielded' = AllFutures THEN "pool_exit" ELSE "collect"
                /\ UNCHANGED pending
    /\ UNCHANGED <<args, fn_vars, stdin, exit_status, response, queue_urls, pool_vars,
                   tty_vars, cd_vars, seen, intr_at>>

\* The with block's exit not waiting: shutdown(wait=False).
PoolDrained_NoWait == TRUE

\* The with block's exit, shutdown(wait=True): it joins the workers, which
\* end once the queue is empty and no fetch runs.
PoolDrained == work_queue = <<>> /\ running = {}

\* Control leaves the with block of line 87: get_queue_infos returns the
\* results and its futures and executor are gone, or the exception goes on
\* to main.
MainPoolExit ==
    /\ pc = "pool_exit"
    /\ PoolDrained
    /\ IF pending = "none"
       THEN /\ pc' = "display"
            /\ futures' = <<>>
            /\ yielded' = {}
            /\ num_threads' = 0
            /\ processed_queues' = 0
            /\ UNCHANGED <<pending, exit_status>>
       ELSE IF pending = "KeyboardInterrupt"
       THEN /\ pc' = "handler"
            /\ pending' = "none"
            /\ UNCHANGED <<exit_status, futures, yielded, num_threads, processed_queues>>
       ELSE /\ pc' = "terminated"
            /\ exit_status' = ExitStatusOf(pending)
            /\ UNCHANGED <<pending, futures, yielded, num_threads, processed_queues>>
    /\ UNCHANGED <<args, fn_vars, stdin, response, queue_urls, work_queue, running, results, tty_vars,
                   cd_vars, seen, intr_at>>

\* lines 172 and 179-180: (clear the console and) display the results; main
\* keeps them until the next cycle's results replace them.
MainDisplay ==
    /\ pc = "display"
    /\ seen' = [seen EXCEPT !.display = TRUE]
    /\ pc' = IF args.watch_given THEN "cd_save" ELSE "exit_check"
    /\ UNCHANGED <<args, fn_vars, stdin, processed_queues, pending, exit_status, response,
                   queue_urls, pool_vars, yielded, results, tty_vars, cd_vars, intr_at>>

\* main without the sys.exit(1) of line 175.
MainExitCheck_AlwaysZero ==
    /\ pc = "exit_check"
    /\ exit_status' = 0
    /\ pc' = "terminated"
    /\ UNCHANGED <<args, fn_vars, stdin, processed_queues, pending, response, queue_urls, pool_vars, yielded, results,
                   tty_vars, cd_vars, seen, intr_at>>

\* lines 174-176: exit status 1 when messages were found, else return.
MainExitCheck ==
    /\ pc = "exit_check"
    /\ exit_status' = IF results # <<>> THEN 1 ELSE 0
    /\ pc' = "terminated"
    /\ UNCHANGED <<args, fn_vars, stdin, processed_queues, pending, response, queue_urls, pool_vars, yielded, results,
                   tty_vars, cd_vars, seen, intr_at>>

\* --------------------------------------------------------------- countdown
\* line 99: original_settings = termios.tcgetattr(sys.stdin)
CdSave ==
    /\ pc = "cd_save"
    /\ original_settings' = tty_mode
    /\ pc' = "cd_setcbreak"
    /\ UNCHANGED <<args, fn_vars, stdin, processed_queues, pending, exit_status, response, queue_urls, pool_vars, yielded,
                   results, tty_mode, cd_vars, seen, intr_at>>

\* line 100: tty.setcbreak(sys.stdin.fileno()); it sets the mode with
\* TCSAFLUSH, which discards the input typed and not yet read.
CdSetCbreak ==
    /\ pc = "cd_setcbreak"
    /\ tty_mode' = "cbreak"
    /\ stdin' = <<>>
    /\ pc' = "cd_len"
    /\ UNCHANGED <<args, fn_vars, processed_queues, pending, exit_status, response, queue_urls, pool_vars, yielded,
                   results, original_settings, cd_vars, seen, intr_at>>

\* lines 102-104: duration_len, then the try block and its loop are entered.
CdEnterTry ==
    /\ pc = "cd_len"
    /\ i' = args.watch
    /\ pc' = "cd_loop"
    /\ UNCHANGED <<args, fn_vars, stdin, processed_queues, pending, exit_status, response, queue_urls, pool_vars, yielded,
                   results, tty_vars, key, ret, seen, intr_at>>

\* lines 107-109, select.select([sys.stdin], [], [], 1) and
\* sys.stdin.read(1): the oldest key typed; with none typed, a key that
\* arrives within the second, or "none" when the second passes without one.
select(typed) == IF typed # <<>> THEN {Head(typed)} ELSE Keys \cup {"none"}

\* countdown without the 'r' branch of lines 111-112.
CdTick_NoRefresh ==
    /\ pc = "cd_loop"
    /\ IF i < 1
       THEN /\ ret' = FALSE
            /\ pc' = "cd_finally"
            /\ UNCHANGED <<i, key, seen, pending>>
       ELSE \E input \in select(stdin) :
            IF input = "none"
            THEN /\ i' = i - 1
                 /\ UNCHANGED <<key, ret, pc, seen, pending>>
            ELSE /\ key' = LowerKey(input)
                 /\ IF key' = "q"
                    THEN /\ quit
                         /\ pc' = "cd_finally"
                         /\ UNCHANGED <<i, ret>>
                    ELSE /\ i' = i - 1
                         /\ UNCHANGED <<ret, pc, seen, pending>>
    /\ stdin' = IF i < 1 \/ stdin = <<>> THEN stdin ELSE Tail(stdin)
    /\ UNCHANGED <<args, fn_vars, processed_queues, exit_status, response, queue_urls,
                   pool_vars, yielded, results, tty_vars, intr_at>>

\* countdown returning True on any key but 'q'.
CdTick_AnyKeyRefreshes ==
    /\ pc = "cd_loop"
    /\ IF i < 1
       THEN /\ ret' = FALSE
            /\ pc' = "cd_finally"
            /\ UNCHANGED <<i, key, seen, pending>>
       ELSE \E input \in select(stdin) :
            IF input = "none"
            THEN /\ i' = i - 1
                 /\ UNCHANGED <<key, ret, pc, seen, pending>>
            ELSE /\ key' = LowerKey(input)
                 /\ IF key' = "q"
                    THEN /\ quit
                         /\ pc' = "cd_finally"
                         /\ UNCHANGED <<i, ret>>
                    ELSE /\ ret' = TRUE
                         /\ pc' = "cd_finally"
                         /\ UNCHANGED <<i, seen, pending>>
    /\ stdin' = IF i < 1 \/ stdin = <<>> THEN stdin ELSE Tail(stdin)
    /\ UNCHANGED <<args, fn_vars, processed_queues, exit_status, response, queue_urls,
                   pool_vars, yielded, results, tty_vars, intr_at>>

\* lines 104-117, one pass of the loop: wait a second for a key; 'r' returns
\* True, 'q' quits, anything else and no key go on to the next second.  With
\* the range used up the function goes on to return False.
CdTick ==
    /\ pc = "cd_loop"
    /\ IF i < 1
       THEN /\ ret' = FALSE
            /\ pc' = "cd_finally"
            /\ UNCHANGED <<i, key, seen, pending>>
       ELSE \E input \in select(stdin) :
            IF input = "none"
            THEN /\ i' = i - 1
                 /\ UNCHANGED <<key, ret, pc, seen, pending>>
            ELSE /\ key' = LowerKey(input)
                 /\ IF key' = "r"
                    THEN /\ ret' = TRUE
                         /\ pc' = "cd_finally"
                         /\ UNCHANGED <<i, seen, pending>>
                    ELSE IF key' = "q"
                    THEN /\ quit
                         /\ pc' = "cd_finally"
                         /\ UNCHANGED <<i, ret>>
                    ELSE /\ i' = i - 1
                         /\ UNCHANGED <<ret, pc, seen, pending>>
    /\ stdin' = IF i < 1 \/ stdin = <<>> THEN stdin ELSE Tail(stdin)
    /\ UNCHANGED <<args, fn_vars, processed_queues, exit_status, response, queue_urls,
                   pool_vars, yielded, results, tty_vars, intr_at>>

\* lines 118-120: the finally clause restores the terminal; then countdown
\* returns to main's loop, which polls again whatever the value, or the
\* exception goes on: SystemExit ends the process, KeyboardInterrupt reaches
\* main's handler.
CdFinally ==
    /\ pc = "cd_finally"
    /\ tty_mode' = original_settings
    /\ IF pending = "none"
       THEN /\ pc' = "poll"
            /\ i' = 0
            /\ key' = ""
            /\ ret' = FALSE
            /\ original_settings' = "unset"
            /\ UNCHANGED <<pending, exit_status>>
       ELSE IF pending = "KeyboardInterrupt"
       THEN /\ pc' = "handler"
            /\ pending' = "none"
            /\ UNCHANGED <<exit_status, cd_vars, original_settings>>
       ELSE /\ pc' = "terminated"
            /\ exit_status' = ExitStatusOf(pending)
            /\ UNCHANGED <<pending, cd_vars, original_settings>>
    /\ UNCHANGED <<args, fn_vars, stdin, processed_queues, response, queue_urls, pool_vars, yielded, results, seen,
                   intr_at>>

\* ------------------------------------------------------- KeyboardInterrupt
\* main without its except clause: the KeyboardInterrupt ends the process.
Handler_Uncaught ==
    /\ pc = "handler"
    /\ exit_status' = ExitStatusOf("KeyboardInterrupt")
    /\ pc' = "terminated"
    /\ UNCHANGED <<args, fn_vars, stdin, processed_queues, pending, response, queue_urls, pool_vars, yielded, results,
                   tty_vars, cd_vars, seen, intr_at>>

\* main, lines 183-185: clear_line(), quit(); SystemExit(0) ends the process.
Handler ==
    /\ pc = "handler"
    /\ quit
    /\ exit_status' = ExitStatusOf("SystemExit")
    /\ pc' = "terminated"
    /\ UNCHANGED <<args, fn_vars, stdin, processed_queues, response, queue_urls, pool_vars, yielded, results, tty_vars,
                   cd_vars, intr_at>>

\* Where a KeyboardInterrupt raised at program point p takes the main thread:
\* inside the with block to the block's exit, inside countdown's try to its
\* finally clause, elsewhere in main's try to main's handler; raised in the
\* handler nothing catches it.
InterruptTarget(p) ==
    IF p \in {"submit", "collect"} THEN "pool_exit"
    ELSE IF p = "cd_loop" THEN "cd_finally"
    ELSE IF p = "handler" THEN "terminated"
    ELSE "handler"

Interrupt ==
    /\ pc \notin {"terminated"}
    /\ intr_at' = intr_at \cup {pc}
    /\ pc' = InterruptTarget(pc)
    /\ pending' = IF pc' \in {"pool_exit", "cd_finally"} THEN "KeyboardInterrupt" ELSE "none"
    /\ exit_status' = IF pc' = "terminated" THEN ExitStatusOf("KeyboardInterrupt")
                      ELSE exit_status
    /\ UNCHANGED <<args, fn_vars, stdin, processed_queues, response, queue_urls, pool_vars, yielded, results, tty_vars,
                   cd_vars, seen>>

\* ---------------------------------------------------------- specification
Next ==
    \/ MainList
    \/ MainFilter
    \/ MainPoll
    \/ MainSubmit
    \/ WorkerTake
    \/ WorkerFinish
    \/ MainCollect
    \/ MainPoolExit
    \/ MainDisplay
    \/ MainExitCheck
    \/ CdSave
    \/ CdSetCbreak
    \/ CdEnterTry
    \/ CdTick
    \/ CdFinally
    \/ Handler
    \/ Interrupt

Spec == Init /\ [][Next]_vars

\* The next statement of the main thread.
MainStep ==
    \/ MainList
    \/ MainFilter
    \/ MainPoll
    \/ MainSubmit
    \/ MainCollect
    \/ MainPoolExit
    \/ MainDisplay
    \/ MainExitCheck
    \/ CdSave
    \/ CdSetCbreak
    \/ CdEnterTry
    \/ CdTick
    \/ CdFinally
    \/ Handler

\* The main thread goes on to its next statement when it is not waiting for
\* a fetch, the select of a tick ends within its second, a worker thread with
\* a task to take takes it, and the service answers every call.
LiveSpec == Spec /\ WF_vars(MainStep) /\ WF_vars(WorkerTake) /\ WF_vars(WorkerFinish)

\* ------------------------------------------------------------- typing ahead
\* The keys typed ahead: a force-refresh key and a quit key.
TypedAhead == {"R", "q"}

\* The user types a key while the program is not waiting for one: the
\* terminal keeps it for the next read.
KeyPress ==
    /\ pc \notin {"terminated", "not_started"}
    /\ Len(stdin) < MaxTyped
    /\ \E k \in TypedAhead : stdin' = Append(stdin, k)
    /\ UNCHANGED <<args, fn_vars, processed_queues, pc, pending, exit_status, response,
                   queue_urls, pool_vars, yielded, results, tty_vars, cd_vars, seen,
                   intr_at>>

\* A run of main in which keys are typed at any time and no interrupt is
\* raised.
KeyNext ==
    \/ KeyPress
    \/ MainList
    \/ MainFilter
    \/ MainPoll
    \/ MainSubmit
    \/ WorkerTake
    \/ WorkerFinish
    \/ MainCollect
    \/ MainPoolExit
    \/ MainDisplay
    \/ MainExitCheck
    \/ CdSave
    \/ CdSetCbreak
    \/ CdEnterTry
    \/ CdTick
    \/ CdFinally

KeySpec == Init /\ [][KeyNext]_vars

\* ------------------------------------------------- the service's queues
\* After main has listed the queues, queues are created or deleted: response
\* is what list_queues would answer from now on.
QueueChange ==
    /\ pc \notin {"list", "terminated", "not_started"}
    /\ response' \in ListedChoices \ {response}
    /\ UNCHANGED <<args, fn_vars, stdin, processed_queues, pc, pending, exit_status,
                   queue_urls, pool_vars, yielded, results, tty_vars, cd_vars, seen,
                   intr_at>>

\* A run of main during which the service's queues change and no interrupt
\* is raised.
ServiceNext ==
    \/ QueueChange
    \/ MainList
    \/ MainFilter
    \/ MainPoll
    \/ MainSubmit
    \/ WorkerTake
    \/ WorkerFinish
    \/ MainCollect
    \/ MainPoolExit
    \/ MainDisplay
    \/ MainExitCheck
    \/ CdSave
    \/ CdSetCbreak
    \/ CdEnterTry
    \/ CdTick
    \/ CdFinally

ServiceSpec == Init /\ [][ServiceNext]_vars

\* ------------------------------------------------- functions on their own
\* check_queue and filter_queues_by_pattern called on arguments of their own,
\* outside a run of main: call holds the arguments, returned the outcome.
UrlLists ==
    LET M == IF MaxQueues < Len(AllUrls) THEN MaxQueues ELSE Len(AllUrls)
        U == {AllUrls[k] : k \in 1..Len(AllUrls)}
    IN  {l \in UNION {[1..n -> U] : n \in 0..M} :
            \A j, k \in DOMAIN l : j # k => l[j] # l[k]}

\* Patterns of literal characters, some anchored, and an invalid one.
FnPatterns ==
    {<<>>, <<"b">>, <<"^", "b">>, <<"a">>, <<"^", "a">>, <<"B">>, <<"h">>, <<"/">>,
     <<"^", "b", "A">>, <<"[">>}

CheckQueueCalls ==
    {[fn |-> "check_queue", queue_url |-> AllUrls[1], include_in_flight |-> f,
      visible |-> v, not_visible |-> n] :
        f \in BOOLEAN, v \in 0..MaxAttr, n \in 0..MaxAttr}

FilterCalls ==
    {[fn |-> "filter_queues_by_pattern", queue_urls |-> l, pattern |-> p] :
        l \in UrlLists, p \in FnPatterns}

FnInit ==
    /\ call \in CheckQueueCalls \cup FilterCalls
    /\ returned = NoCall
    /\ args = [watch_given |-> FALSE, watch |-> 0, workers |-> 1,
               include_in_flight |-> FALSE, pattern |-> <<>>]
    /\ pc = "not_started"
    /\ pending = "none"
    /\ exit_status = NoExit
    /\ response = <<>>
    /\ queue_urls = <<>>
    /\ futures = <<>>
    /\ work_queue = <<>>
    /\ num_threads = 0
    /\ running = {}
    /\ yielded = {}
    /\ results = <<>>
    /\ tty_mode = "cooked"
    /\ original_settings = "unset"
    /\ i = 0
    /\ key = ""
    /\ ret = FALSE
    /\ seen = NothingSeen
    /\ intr_at = {}
    /\ stdin = <<>>
    /\ processed_queues = 0

main_vars == <<args, pc, pending, exit_status, response, queue_urls, futures, work_queue,
               num_threads, running, yielded, results, tty_mode, original_settings, i,
               key, ret, seen, intr_at, stdin, processed_queues>>

\* check_queue(queue_url, include_in_flight) against a queue that exists:
\* returned holds the attribute names of the request and the value.
FnCheckQueue ==
    /\ call.fn = "check_queue"
    /\ returned = NoCall
    /\ LET attribute_names == AttributeNames(call.include_in_flight)
       IN  returned' =
               [fn |-> "check_queue",
                attribute_names |-> attribute_names,
                value |-> check_queue(call.queue_url, call.include_in_flight,
                              get_queue_attributes(call.visible, call.not_visible,
                                                   attribute_names))]
    /\ UNCHANGED <<main_vars, call>>

\* filter_queues_by_pattern(queue_urls, pattern)
FnFilter ==
    /\ call.fn = "filter_queues_by_pattern"
    /\ returned = NoCall
    /\ LET f == filter_queues_by_pattern(call.queue_urls, call.pattern)
       IN  returned' = [fn |-> "filter_queues_by_pattern", exit |-> f.exit, urls |-> f.urls]
    /\ UNCHANGED <<main_vars, call>>

FnNext ==
    \/ FnCheckQueue
    \/ FnFilter

FnSpec == FnInit /\ [][FnNext]_vars

\* ------------------------------------------------------------ properties
PoolPcs == {"submit", "collect", "pool_exit"}
CountdownPcs == {"cd_save", "cd_setcbreak", "cd_len", "cd_loop", "cd_finally"}

TotalOf(r) == r.message_count + r.in_flight_count

\* Some entry of results is the snapshot of queue_urls[k].
InResults(k) == \E j \in 1..Len(results) : results[j].queue_url = queue_urls[k]

\* C1: every snapshot in results is a tuple whose total, visible plus
\* in-flight, is positive, with in-flight 0 when in-flight inclusion is off;
\* no finished fetch carries a tuple with total zero, a fetch that handed
\* back None is not in results, and every row display_results prints for
\* results has a positive total.
C1_TotalPositive ==
    /\ \A j \in 1..Len(results) :
        /\ results[j].kind = "tuple"
        /\ TotalOf(results[j]) > 0
        /\ ~args.include_in_flight => results[j].in_flight_count = 0
    /\ \A k \in AllFutures :
        futures[k].state = "finished" =>
            /\ futures[k].value.kind = "tuple" => TotalOf(futures[k].value) > 0
            /\ futures[k].value.kind = "None" => ~InResults(k)
    /\ LET rows == display_results(results)
       IN  \A j \in 1..Len(rows) : rows[j].total_count > 0

\* A cycle in which one queue answered with no messages was skipped and
\* another queue's snapshot was collected.
C1_Witness ==
    /\ pc = "pool_exit"
    /\ pending = "none"
    /\ results # <<>>
    /\ \E k \in yielded : futures[k].exc = "none" /\ futures[k].value.kind = "None"

NoTaskOutstanding == \A k \in AllFutures : futures[k].state \notin {"pending", "running"}

\* The step is a KeyboardInterrupt raised at the main thread's point p.
InterruptAt(p) == pc = p /\ p \notin intr_at /\ p \in intr_at'

\* C2, as claimed: whenever control leaves the pool scope of get_queue_infos,
\* by a return, a fetch error or an interrupt, no submitted task is pending
\* or running.
C2_DrainedOnEveryLeave ==
    [][(pc \in PoolPcs /\ pc' \notin PoolPcs) => NoTaskOutstanding]_vars

\* C2, amended: control leaves the pool scope with no submitted task pending
\* or running when it leaves by a return, by a fetch error or by an interrupt
\* raised before the pool's exit started to wait for the workers; only an
\* interrupt raised during that wait lets it leave earlier.
C2_DrainedUnlessWaitInterrupted ==
    [][(pc \in PoolPcs /\ pc' \notin PoolPcs /\ ~InterruptAt("pool_exit"))
          => NoTaskOutstanding]_vars

\* The pool was left after an interrupt during the cycle, and a task that
\* was still to be completed then has completed.
C2_Witness ==
    /\ pc = "handler"
    /\ intr_at \cap {"submit", "collect"} # {}
    /\ "pool_exit" \notin intr_at
    /\ \E k \in AllFutures \ yielded : futures[k].state = "finished"
    /\ NoTaskOutstanding

\* C3: the fetches executing at the same time never exceed args.workers, and
\* when the collecting loop runs one task per identifier has been submitted.
C3_BoundedConcurrency ==
    /\ Cardinality(running) <= args.workers
    /\ pc = "collect" =>
        /\ Len(futures) = Len(queue_urls)
        /\ \A k \in AllFutures : futures[k].state # "unsubmitted"

\* Every worker is busy while a submitted task waits in the queue.
C3_Witness ==
    /\ Cardinality(running) = args.workers
    /\ work_queue # <<>>
    /\ pc = "collect"

\* C4, as claimed: outside countdown, and after the process has terminated,
\* the terminal is in the mode it had before countdown was entered.
C4_TerminalRestored == pc \notin CountdownPcs => tty_mode = "cooked"

\* C5: a tick that reads the force-refresh key ends the countdown at that
\* tick, with i as it was and True to return, and the step that follows
\* countdown's finally clause is the start of a new poll cycle.
C5_ForceRefresh ==
    [][/\ (pc = "cd_loop" /\ key' = "r") =>
            pc' = "cd_finally" /\ ret' = TRUE /\ i' = i /\ pending' = "none"
       /\ (pc = "cd_finally" /\ key = "r" /\ ~InterruptAt("cd_finally")) =>
            pc' = "poll" /\ tty_mode' = original_settings]_vars

\* The key was read with ticks remaining.
C5_Witness ==
    /\ pc = "cd_finally"
    /\ key = "r"
    /\ ret
    /\ i > 1
    /\ pending = "none"

\* C6: once the quit key is read the main thread only unwinds and ends, no
\* fetch is queued or running, and with no interrupt raised the termination
\* message is printed exactly once and the process ends with status 0.
C6_QuitKey ==
    key = "q" =>
        /\ pc \in {"cd_finally", "handler", "terminated"}
        /\ work_queue = <<>> /\ running = {}
        /\ seen.term_msgs >= 1
        /\ intr_at = {} =>
            /\ seen.term_msgs = 1
            /\ pc = "cd_finally" => pending = "SystemExit"
            /\ pc = "terminated" => exit_status = 0 /\ tty_mode = original_settings

C6_Witness ==
    /\ key = "q"
    /\ pc = "terminated"
    /\ intr_at = {}
    /\ exit_status = 0
    /\ seen.poll

\* C7: after a KeyboardInterrupt raised while the main thread lists, filters,
\* polls, displays or counts down, the main thread only unwinds to main's
\* handler, no further poll cycle starts, and the process ends with the
\* termination message printed and status 0.
C7_InterruptTerminates ==
    (intr_at # {} /\ "handler" \notin intr_at) =>
        /\ pc \in {"pool_exit", "cd_finally", "handler", "terminated"}
        /\ pc \in {"pool_exit", "cd_finally"} => pending = "KeyboardInterrupt"
        /\ pc = "handler" => pending = "none"
        /\ pc = "terminated" => exit_status = 0 /\ seen.term_msgs >= 1

\* The process has ended after an interrupt in the countdown.
C7_Witness ==
    /\ pc = "terminated"
    /\ "cd_loop" \in intr_at
    /\ exit_status = 0
    /\ seen.term_msgs = 1

\* C8: without --watch the countdown is never entered, a poll cycle and a
\* display are each started only once, a run that ends without an invalid
\* pattern, a fetch error or an interrupt has displayed, and after the
\* display the status is 1 exactly when results is not empty and 0 exactly
\* when it is empty.
C8_NonWatchExit ==
    ~args.watch_given =>
        /\ pc \notin CountdownPcs
        /\ pc = "poll" => ~seen.poll
        /\ pc = "display" => ~seen.display
        /\ pc = "exit_check" => seen.poll /\ seen.display
        /\ (pc = "terminated" /\ intr_at = {} /\ pending = "none" /\ ~seen.regex_error)
              => seen.display
        /\ (pc = "terminated" /\ intr_at = {} /\ seen.display) =>
            /\ exit_status = 1 <=> results # <<>>
            /\ exit_status = 0 <=> results = <<>>

C8_Witness ==
    /\ ~args.watch_given
    /\ pc = "terminated"
    /\ intr_at = {}
    /\ exit_status = 1
    /\ results # <<>>

\* C9: a fetch the service answered with "queue does not exist" hands back
\* None, not an error, and its identifier is not in results; a fetch error
\* only comes from another failure; and when the cycle's loop has ended every
\* fetch is finished and every tuple handed back is in results.
C9_AbsentOnDelete ==
    /\ \A k \in AllFutures :
        (futures[k].state = "finished" /\ futures[k].exc = "QueueDoesNotExist") =>
            futures[k].value = NoneResult /\ ~InResults(k)
    /\ pending = "FetchError" => \E k \in yielded : futures[k].exc = "other"
    /\ (pc = "pool_exit" /\ pending = "none") =>
        \A k \in AllFutures :
            /\ futures[k].state = "finished"
            /\ futures[k].value.kind = "tuple" =>
                \E j \in 1..Len(results) : results[j] = futures[k].value

\* A deleted queue was skipped and another queue's snapshot was collected.
C9_Witness ==
    /\ pc = "pool_exit"
    /\ pending = "none"
    /\ \E k \in yielded : futures[k].exc = "QueueDoesNotExist"
    /\ \E k \in yielded : futures[k].value.kind = "tuple" /\ InResults(k)

BadPattern == args.pattern # <<>> /\ ~RegexValid(args.pattern)

\* C10: with an invalid pattern no poll cycle starts, no fetch is made and
\* nothing is displayed; the main thread gets no further than the filter,
\* and a run that no interrupt ends reports the error and ends with status 1.
C10_InvalidPattern ==
    BadPattern =>
        /\ ~seen.poll /\ ~seen.fetch /\ ~seen.display
        /\ futures = <<>> /\ results = <<>>
        /\ pc \in {"list", "filter", "handler", "terminated"}
        /\ (pc = "terminated" /\ intr_at = {}) =>
            exit_status = 1 /\ seen.regex_error

C10_Witness ==
    /\ BadPattern
    /\ response # <<>>
    /\ pc = "terminated"
    /\ exit_status = 1
    /\ seen.regex_error

\* C11, as claimed: when the process has ended on an invalid pattern, neither
\* list_queues nor get_queue_attributes has been called.
C11_NoNetworkCall ==
    (BadPattern /\ pc = "terminated" /\ seen.regex_error) => ~seen.list /\ ~seen.fetch

\* results in another arrival order.
Rearranged(p) == [k \in 1..Len(results) |-> results[p[k]]]

\* C12: the rows display_results prints for results are the rows of results,
\* each once, in descending total_count and, among equal totals, in ascending
\* base_name; and display_results prints the same rows in the same order for
\* every other order in which the same results can have arrived.
C12_SortOrder ==
    LET rows == display_results(results)
        N == Len(results)
    IN  /\ Len(rows) = N
        /\ \E p \in Permutations(1..N) : \A j \in 1..N : rows[j] = DisplayRow(results[p[j]])
        /\ \A j \in 1..(N - 1) :
            \/ rows[j].total_count > rows[j + 1].total_count
            \/ /\ rows[j].total_count = rows[j + 1].total_count
               /\ ~StrLess(rows[j + 1].base_name, rows[j].base_name)
        /\ \A p \in Permutations(1..N) : display_results(Rearranged(p)) = rows

\* The results to display arrived out of submission order, and the row
\* printed first is not of the result that arrived first.
C12_Witness ==
    /\ pc = "display"
    /\ Len(results) >= 2
    /\ results[1].queue_url # queue_urls[1]
    /\ display_results(results)[1].link # DisplayRow(results[1]).link

\* C13: check_queue called without include_in_flight on a queue with v
\* visible and n not-visible messages asks for the visible count only and
\* hands back None when v = 0 and (v, 0, url) otherwise, whatever n is; called
\* with include_in_flight it asks for both counts and hands back None when
\* v + n = 0 and (v, n, url), of total v + n, otherwise.
C13_InFlightInclusion ==
    (call.fn = "check_queue" /\ returned # NoCall) =>
        LET v == call.visible
            n == call.not_visible
            val == returned.value
        IN  IF call.include_in_flight
            THEN /\ returned.attribute_names =
                        {"ApproximateNumberOfMessages", "ApproximateNumberOfMessagesNotVisible"}
                 /\ v + n = 0 => val = NoneResult
                 /\ v + n > 0 =>
                        /\ val.kind = "tuple"
                        /\ val.message_count = v
                        /\ val.in_flight_count = n
                        /\ DisplayRow(val).total_count = v + n
                        /\ val.queue_url = call.queue_url
            ELSE /\ returned.attribute_names = {"ApproximateNumberOfMessages"}
                 /\ v = 0 => val = NoneResult
                 /\ v > 0 =>
                        /\ val.kind = "tuple"
                        /\ val.message_count = v
                        /\ val.in_flight_count = 0
                        /\ DisplayRow(val).total_count = v
                        /\ val.queue_url = call.queue_url

\* A queue whose messages are all in flight is present when they are counted.
C13_Witness ==
    /\ call.fn = "check_queue"
    /\ call.include_in_flight
    /\ call.visible = 0
    /\ call.not_visible = MaxAttr
    /\ returned # NoCall
    /\ returned.value.kind = "tuple"

\* The queue name of url, in lower case, holds the pattern's literal
\* characters, in lower case, as a run of consecutive characters; from its
\* first character on when the pattern starts with ^.
NameMatches(pattern, url) ==
    LET anchored == Head(pattern) = "^"
        lit == Lower(IF anchored THEN Tail(pattern) ELSE pattern)
        name == Lower(LastSegment(url))
    IN  \E a \in 0..Len(name) : \E b \in a..Len(name) :
            /\ anchored => a = 0
            /\ b - a = Len(lit)
            /\ \A k \in 1..Len(lit) : name[a + k] = lit[k]

\* C14: filter_queues_by_pattern called with the empty pattern returns its
\* list as it is; called with a valid pattern it returns, without exiting,
\* the list's URLs whose queue name matches, each once and in list order, and
\* no other.
C14_FilterSemantics ==
    (call.fn = "filter_queues_by_pattern" /\ returned # NoCall) =>
        IF call.pattern = <<>>
        THEN ~returned.exit /\ returned.urls = call.queue_urls
        ELSE RegexValid(call.pattern) =>
                LET Test(url) == NameMatches(call.pattern, url)
                IN  /\ ~returned.exit
                    /\ returned.urls = SelectSeq(call.queue_urls, Test)

\* The pattern B, which the names Ba and b hold in one case or the other,
\* kept both URLs of the list h/Ba, h/b in that order.
C14_Witness ==
    /\ call.fn = "filter_queues_by_pattern"
    /\ call.pattern = <<"B">>
    /\ returned # NoCall
    /\ returned.urls = << <<"h", "/", "B", "a">>, <<"h", "/", "b">> >>

\* C15: with keys typed at any time, a step that takes a key from the
\* terminal is a step of countdown, either its setcbreak, which discards what
\* was typed, or a tick of its loop; when a tick reads a key no fetch is
\* queued or running and get_queue_infos has returned; countdown is entered
\* only from the display of a cycle's results; and a poll cycle, once
\* started, goes on to that display with every fetch finished and handed over,
\* unless a fetch error ends the run.
C15_NoKeyCancelsPoll ==
    [][/\ Len(stdin') < Len(stdin) => pc \in {"cd_setcbreak", "cd_loop"}
       /\ (key' # key /\ key' # "") =>
            /\ pc = "cd_loop"
            /\ work_queue = <<>> /\ running = {} /\ futures = <<>>
       /\ (pc' = "cd_save" /\ pc # "cd_save") => pc = "display"
       /\ (pc' = "poll" /\ pc \notin {"poll", "filter"}) =>
            pc = "cd_finally" /\ key \in {"", "r", "x"}
       /\ pc \in PoolPcs =>
            \/ pc' \in PoolPcs
            \/ pc' = "terminated" /\ pending = "FetchError"
            \/ /\ pc' = "display"
               /\ processed_queues = Len(queue_urls)
               /\ NoTaskOutstanding /\ work_queue = <<>> /\ running = {}]_vars

\* A quit key has been typed while a fetch of the cycle is running and
\* another has been handed over.
C15_Witness ==
    /\ pc = "collect"
    /\ stdin # <<>> /\ Head(stdin) = "q"
    /\ running # {}
    /\ yielded # {}

\* C16: within a cycle a fetch is started only once, from the queue, and a
\* finished fetch stays as it finished; a fetch error handed over to the loop
\* of get_queue_infos leaves results as they were and is raised from it, and,
\* with no interrupt raised, stays raised until it has ended the process with
\* a status other than 0, no display and no poll cycle coming after it.
C16_FetchErrorAborts ==
    [][/\ \A k \in AllFutures :
            k <= Len(futures') =>
                /\ (futures'[k].state = "running" /\ futures[k].state # "running")
                        => futures[k].state = "pending"
                /\ futures[k].state = "running"
                        => futures'[k].state \in {"running", "finished"}
                /\ futures[k].state = "finished" => futures'[k] = futures[k]
       /\ \A k \in yielded' \ yielded :
            futures[k].exc = "other" =>
                /\ futures[k].value = ErrorResult
                /\ pending' = "FetchError"
                /\ pc' = "pool_exit"
                /\ results' = results
       /\ (pending = "FetchError" /\ intr_at' = {}) =>
            /\ pending' = "FetchError"
            /\ pc' \in {"pool_exit", "terminated"}
            /\ seen' = seen
            /\ pc' = "terminated" => exit_status' = 1]_vars

\* In watch mode a fetch error of a later cycle has ended the process.
C16_Witness ==
    /\ pc = "terminated"
    /\ pending = "FetchError"
    /\ exit_status = 1
    /\ intr_at = {}
    /\ args.watch_given
    /\ seen.display
    /\ \E k \in AllFutures : futures[k].value.kind = "tuple"

\* C17: countdown starts its loop at the interval given; a tick with seconds
\* remaining that reads no key, or a key other than the force-refresh and
\* quit keys, stays in the loop with one second less, starts no poll and ends
\* nothing; with no second remaining the loop ends and countdown goes on to
\* return False; and from countdown's return the next step is the start of a
\* poll cycle.  In watch mode with a valid pattern, unless a quit key is read,
\* an interrupt is raised or a fetch fails, poll cycles start again and again.
C17_CountdownTicks ==
    /\ [][/\ (pc = "cd_len" /\ pc' = "cd_loop") => i' = args.watch
          /\ (pc = "cd_loop" /\ ~InterruptAt("cd_loop") /\ i >= 1
                 /\ key' \notin {"r", "q"}) =>
                /\ pc' = "cd_loop"
                /\ i' = i - 1
                /\ i' \in 0..(args.watch - 1)
                /\ UNCHANGED <<seen, pending, exit_status, tty_mode>>
          /\ (pc = "cd_loop" /\ ~InterruptAt("cd_loop") /\ i < 1) =>
                pc' = "cd_finally" /\ ret' = FALSE /\ pending' = "none"
          /\ (pc = "cd_finally" /\ ~InterruptAt("cd_finally") /\ pending = "none") =>
                pc' = "poll"]_vars
    /\ (args.watch_given /\ ~BadPattern) =>
            \/ []<>(pc = "poll")
            \/ <>(key = "q" \/ intr_at # {} \/ pending = "FetchError")

\* The countdown has run out, a key that is not recognized having been read
\* on the way, and a poll cycle is about to start.
C17_Witness ==
    /\ pc = "cd_finally"
    /\ pending = "none"
    /\ i = 0
    /\ key = "x"
    /\ ~ret
    /\ intr_at = {}

\* C18: processed_queues changes only by a step of the collecting loop, which
\* hands over one finished fetch not handed over before and counts it, to a
\* value one larger and no larger than the number of queues, or by going back
\* to 0 at the start and at the return of get_queue_infos; it is the number of
\* fetches handed over; get_queue_infos returns with every queue counted; and
\* a step of a worker thread leaves the terminal's mode, the count and what
\* has been printed as they are, and the main thread where it is.
C18_ProgressIndicator ==
    [][/\ processed_queues' # processed_queues =>
            \/ /\ pc = "collect"
               /\ processed_queues' = processed_queues + 1
               /\ processed_queues' <= Len(queue_urls)
               /\ \E k \in AllFutures \ yielded :
                    futures[k].state = "finished" /\ yielded' = yielded \cup {k}
            \/ processed_queues' = 0 /\ pc \in {"poll", "pool_exit"}
       /\ processed_queues = Cardinality(yielded)
       /\ processed_queues' = Cardinality(yielded')
       /\ (pc = "pool_exit" /\ pc' = "display") => processed_queues = Len(queue_urls)
       /\ running' # running =>
            /\ UNCHANGED <<pc, pending, tty_mode, original_settings, processed_queues>>
            /\ seen'.term_msgs = seen.term_msgs
            /\ seen'.display = seen.display
            /\ seen'.regex_error = seen.regex_error]_vars

\* Every queue of a cycle of several has been counted, the last fetch
\* submitted having been counted first.
C18_Witness ==
    /\ pc = "pool_exit"
    /\ pending = "none"
    /\ Len(queue_urls) >= 2
    /\ processed_queues = Len(queue_urls)
    /\ results # <<>>
    /\ results[1].queue_url = queue_urls[Len(queue_urls)]

\* C19: results never holds two snapshots of one queue; while a cycle runs
\* every snapshot in results is the tuple that a fetch of this cycle, handed
\* over to the loop, returned for its queue of queue_urls; and when the loop
\* has ended without error results holds the tuple of every fetch of the
\* cycle that returned one, and as many snapshots as there are such fetches.
C19_PollResultExact ==
    /\ \A j1, j2 \in 1..Len(results) :
            j1 # j2 => results[j1].queue_url # results[j2].queue_url
    /\ \A j \in 1..Len(results) :
            \E k \in 1..Len(queue_urls) : results[j].queue_url = queue_urls[k]
    /\ pc \in PoolPcs =>
            \A j \in 1..Len(results) :
                \E k \in yielded :
                    /\ futures[k].value.kind = "tuple"
                    /\ futures[k].value = results[j]
                    /\ results[j].queue_url = queue_urls[k]
    /\ (pc = "pool_exit" /\ pending = "none") =>
            /\ \A k \in AllFutures :
                    futures[k].value.kind = "tuple" =>
                        \E j \in 1..Len(results) : results[j] = futures[k].value
            /\ Len(results) =
                    Cardinality({k \in AllFutures : futures[k].value.kind = "tuple"})

\* A later cycle of a watch-mode run has ended with one queue present and
\* another absent.
C19_Witness ==
    /\ pc = "pool_exit"
    /\ pending = "none"
    /\ args.watch_given
    /\ seen.display
    /\ Len(results) = 1
    /\ Len(queue_urls) >= 2
    /\ \E k \in AllFutures : futures[k].value = NoneResult

\* C20: with queues created and deleted while main runs, list_queues is
\* called once and the filter applied once, at the start; queue_urls is what
\* the listing answered, filtered, and no later step changes it; every poll
\* cycle starts with one fetch to submit for each URL of queue_urls, submits
\* each once, and returns with each of them finished.
C20_StaticCandidateList ==
    [][/\ seen.list => seen'.list /\ pc' # "list"
       /\ pc' = "filter" => pc \in {"list", "filter"}
       /\ (pc = "list" /\ pc' = "filter") => ~seen.list /\ queue_urls' = response
       /\ (pc = "filter" /\ pc' = "poll") =>
            queue_urls' = filter_queues_by_pattern(queue_urls, args.pattern).urls
       /\ pc \notin {"list", "filter"} => queue_urls' = queue_urls
       /\ (pc = "poll" /\ pc' # "poll") =>
            /\ Len(futures') = Len(queue_urls)
            /\ \A k \in 1..Len(futures') : futures'[k].state = "unsubmitted"
       /\ \A k \in AllFutures :
            (k <= Len(futures') /\ futures'[k].state # futures[k].state) =>
                <<futures[k].state, futures'[k].state>> \in
                    {<<"unsubmitted", "pending">>, <<"pending", "running">>,
                     <<"running", "finished">>}
       /\ (pc = "pool_exit" /\ pc' = "display") =>
            /\ Len(futures) = Len(queue_urls)
            /\ \A k \in AllFutures : futures[k].state = "finished"
            /\ \A k \in AllFutures :
                futures[k].value.kind = "tuple" => futures[k].value.queue_url = queue_urls[k]]_vars

\* A later cycle of a watch-mode run has fetched the queues listed at the
\* start, after a queue had been created.
C20_Witness ==
    /\ pc = "pool_exit"
    /\ pending = "none"
    /\ args.watch_given
    /\ seen.display
    /\ args.pattern = <<>>
    /\ queue_urls # <<>>
    /\ Len(response) > Len(queue_urls)
    /\ \A k \in AllFutures : futures[k].state = "finished"

====
